---------------------------- MODULE Spec2Model ----------------------------
(***************************************************************************)
(* Model of the ToDo API (Eisenhower matrix): the tasks router             *)
(* (src/routers/tasks.py), the statistics router (src/routers/stats.py),   *)
(* the Task row (src/models/task.py) and the response schema               *)
(* (src/schemas.py).                                                       *)
(*                                                                         *)
(* Time is counted in whole seconds since an epoch that falls on a UTC     *)
(* midnight.  A nullable value is a sequence of length at most one:        *)
(* None is <<>>, a present value v is <<v>>.  A text is a sequence of      *)
(* one-character strings.  Every handler is one atomic action: the         *)
(* request is served inside one database session.                          *)
(***************************************************************************)
EXTENDS Integers, Sequences, FiniteSets, TLC

VARIABLES
    tasks,      \* the tasks table: id -> row, for the ids that exist
    next_id,    \* the autoincrement sequence of tasks.id
    now,        \* the clock, datetime.now(timezone.utc), in seconds
    resp,       \* the answer of the handler that just ran, until it is delivered
    nops,       \* how many requests changed the table, plus the days that passed
    call,       \* the last evaluation of a pure helper (specification PureSpec)
    sessions    \* the requests in progress between two of their queries
                \* (specification RaceSpec)

vars == <<tasks, next_id, now, resp, nops, call, sessions>>

-----------------------------------------------------------------------------
(* Bounds of the model *)

\* tasks.id never goes beyond MaxId: at most MaxId tasks are ever created
MaxId == 2
\* the clock advances at most MaxDays times, one day at a time
MaxDays == 1
\* at most MaxOps steps change the table or the clock
MaxOps == 3

-----------------------------------------------------------------------------
(* Values *)

None == <<>>
Some(v) == <<v>>
IsNone(o) == Len(o) = 0
Val(o) == o[1]

SecondsPerDay == 24 * 60 * 60

\* total_seconds() <= 259200 in every urgency computation
URGENT_SECONDS == 259200

\* The actors get_current_user resolves: 1 is an administrator, 2 and 3 are
\* plain users (register gives every new user the role USER).
Users == {1, 2, 3}
role(u) == IF u = 1 THEN "admin" ELSE "user"

Quadrants == {"Q1", "Q2", "Q3", "Q4"}

\* Texts a request can carry as title or description
TextA == <<"A", "b">>
TextX == <<"x", "y">>
\* Deadlines a request can carry: noon of day 0 and midnight of day 4
DeadlineNoon == 12 * 60 * 60
DeadlineDay4 == 4 * SecondsPerDay
Deadlines == {DeadlineNoon, DeadlineDay4}

-----------------------------------------------------------------------------
(* Pure helpers *)

\* Variants used to test the properties below: days rounded towards zero, a
\* strict comparison, exchanged quadrants
timedelta_days_trunc(seconds) ==
    IF seconds >= 0 THEN seconds \div SecondsPerDay
    ELSE -((-seconds) \div SecondsPerDay)

\* timedelta.days: a timedelta is normalised to days and 0 <= seconds < 86400,
\* so days is the floor of the difference in days
timedelta_days(seconds) ==
    IF seconds >= 0 THEN seconds \div SecondsPerDay
    ELSE -((-seconds + SecondsPerDay - 1) \div SecondsPerDay)

calculate_quadrant_strict(is_important, deadline_at, clock) ==
    LET is_urgent == IF IsNone(deadline_at) THEN FALSE
                     ELSE Val(deadline_at) - clock < URGENT_SECONDS
    IN  IF is_important /\ is_urgent THEN "Q1"
        ELSE IF is_important /\ ~is_urgent THEN "Q2"
        ELSE IF ~is_important /\ is_urgent THEN "Q3"
        ELSE "Q4"

calculate_quadrant_swapped(is_important, deadline_at, clock) ==
    LET is_urgent == IF IsNone(deadline_at) THEN FALSE
                     ELSE Val(deadline_at) - clock <= URGENT_SECONDS
    IN  IF is_important /\ is_urgent THEN "Q1"
        ELSE IF is_important /\ ~is_urgent THEN "Q3"
        ELSE IF ~is_important /\ is_urgent THEN "Q2"
        ELSE "Q4"

\* tasks.calculate_quadrant, its clock reading passed as clock
calculate_quadrant(is_important, deadline_at, clock) ==
    LET is_urgent == IF IsNone(deadline_at) THEN FALSE
                     ELSE Val(deadline_at) - clock <= URGENT_SECONDS
    IN  IF is_important /\ is_urgent THEN "Q1"
        ELSE IF is_important /\ ~is_urgent THEN "Q2"
        ELSE IF ~is_important /\ is_urgent THEN "Q3"
        ELSE "Q4"

\* tasks.calculate_days_until_deadline
calculate_days_until_deadline(deadline_at, clock) ==
    IF IsNone(deadline_at) THEN None
    ELSE Some(timedelta_days(Val(deadline_at) - clock))

Task_calculate_is_urgent_strict(deadline_at, clock) ==
    IF IsNone(deadline_at) THEN FALSE
    ELSE Val(deadline_at) - clock < URGENT_SECONDS

\* Task.calculate_is_urgent
Task_calculate_is_urgent(deadline_at, clock) ==
    IF IsNone(deadline_at) THEN FALSE
    ELSE Val(deadline_at) - clock <= URGENT_SECONDS

\* Task.days_until_deadline
Task_days_until_deadline(deadline_at, clock) ==
    IF IsNone(deadline_at) THEN None
    ELSE Some(timedelta_days(Val(deadline_at) - clock))

\* stats.calculate_is_urgent
stats_calculate_is_urgent(deadline_at, clock) ==
    IF IsNone(deadline_at) THEN FALSE
    ELSE Val(deadline_at) - clock <= URGENT_SECONDS

stats_days_until_deadline_trunc(deadline_at, clock) ==
    IF IsNone(deadline_at) THEN None
    ELSE Some(timedelta_days_trunc(Val(deadline_at) - clock))

\* stats.days_until_deadline
stats_days_until_deadline(deadline_at, clock) ==
    IF IsNone(deadline_at) THEN None
    ELSE Some(timedelta_days(Val(deadline_at) - clock))

-----------------------------------------------------------------------------
(* Rows, queries and the response schema *)

\* The columns of a Task row
Columns == {"id", "title", "description", "is_important", "quadrant",
            "completed", "created_at", "completed_at", "deadline_at", "user_id"}

\* Task.to_dict: the ten columns under their own names
to_dict(task) ==
    [id |-> task.id, title |-> task.title, description |-> task.description,
     is_important |-> task.is_important, quadrant |-> task.quadrant,
     completed |-> task.completed, created_at |-> task.created_at,
     completed_at |-> task.completed_at, deadline_at |-> task.deadline_at,
     user_id |-> task.user_id]

\* TaskResponse: the fields of the schema, and those without a default
TaskResponseFields == {"id", "title", "description", "is_important", "quadrant",
                       "completed", "created_at", "completed_at", "deadline_at",
                       "is_urgent", "days_until_deadline"}
TaskResponseRequired == {"title", "id", "quadrant", "completed", "created_at",
                         "is_urgent"}

\* TaskResponse(**data): pydantic rejects data that lacks a required field
TaskResponse_valid(data) == TaskResponseRequired \subseteq DOMAIN data

\* The model TaskResponse(**data) builds: keys outside the schema are ignored,
\* the optional fields default to None
TaskResponse(data) ==
    [f \in (DOMAIN data \cap TaskResponseFields) \cup {"days_until_deadline"} |->
        IF f \in DOMAIN data THEN data[f] ELSE None]

\* TaskResponse.from_orm: the stored columns and the two computed fields
from_orm(obj, clock) ==
    TaskResponse(
        [id |-> obj.id, title |-> obj.title, description |-> obj.description,
         is_important |-> obj.is_important, quadrant |-> obj.quadrant,
         completed |-> obj.completed, created_at |-> obj.created_at,
         completed_at |-> obj.completed_at, deadline_at |-> obj.deadline_at,
         is_urgent |-> Task_calculate_is_urgent(obj.deadline_at, clock),
         days_until_deadline |-> Task_days_until_deadline(obj.deadline_at, clock)])

\* The ids of a set, ascending, as a sequence
RECURSIVE Ascending(_)
Ascending(S) ==
    IF S = {} THEN <<>>
    ELSE LET m == CHOOSE x \in S : \A y \in S : x <= y
         IN  <<m>> \o Ascending(S \ {m})

\* select(Task).where(...): the rows that satisfy Cond; the store returns them
\* in primary-key order
Select(Cond(_)) ==
    LET ids == Ascending({i \in DOMAIN tasks : Cond(tasks[i])})
    IN  [k \in 1..Len(ids) |-> tasks[ids[k]]]

\* The visibility condition every list handler adds to its query
InScope(actor, task) == role(actor) = "admin" \/ task.user_id = actor

\* A stable insertion of x into a sequence sorted by Key, after its equals
RECURSIVE InsertBy(_, _, _)
InsertBy(Key(_), x, s) ==
    IF s = <<>> THEN <<x>>
    ELSE IF Key(x) < Key(Head(s)) THEN <<x>> \o s
    ELSE <<Head(s)>> \o InsertBy(Key, x, Tail(s))

\* A stable sort by Key, ascending (ORDER BY, list.sort)
RECURSIVE SortBy(_, _)
SortBy(Key(_), s) ==
    IF s = <<>> THEN <<>>
    ELSE InsertBy(Key, s[Len(s)], SortBy(Key, SubSeq(s, 1, Len(s) - 1)))

\* str.lower() on the characters in use
LowerChar(c) == IF c = "A" THEN "a" ELSE IF c = "B" THEN "b" ELSE c
Lower(text) == [k \in 1..Len(text) |-> LowerChar(text[k])]

\* column ILIKE '%q%': q occurs in the text, case ignored
ilike(text, q) ==
    \E k \in 1..(Len(text) - Len(q) + 1) :
        SubSeq(Lower(text), k, k + Len(q) - 1) = Lower(q)

\* HTTP status -> the kind of outcome
Kind(status) ==
    IF status \in {200, 201} THEN "OK"
    ELSE IF status \in {400, 422} THEN "ValidationError"
    ELSE IF status = 403 THEN "Forbidden"
    ELSE IF status = 404 THEN "NotFound"
    ELSE "InternalError"

\* What a handler answered: the handler, the actor, the task id of the path
\* (0 when there is none), the path or query parameter of a list handler
\* (None when there is none), the HTTP status, whether db.commit() returned,
\* the fields the request body supplied, and the tasks of the response body
Response(op, actor, task_id, param, status, committed, supplied, body) ==
    [op |-> op, actor |-> actor, task_id |-> task_id, param |-> param,
     status |-> status, committed |-> committed, supplied |-> supplied,
     body |-> body]

NoResponse == Response("none", 0, 0, None, 0, FALSE, {}, <<>>)
\* An evaluation of a pure helper: the helper, its arguments, the clock it
\* read, and its result in the field of its type
Call(fn, is_important, deadline_at, clock, quadrant, urgent, days) ==
    [fn |-> fn, is_important |-> is_important, deadline_at |-> deadline_at,
     clock |-> clock, quadrant |-> quadrant, urgent |-> urgent, days |-> days]

NoCall == Call("none", FALSE, None, 0, "", FALSE, None)

\* The requests that can be in progress at the same time
Requests == {1, 2}

\* A request in progress: the handler, where it is (idle, loaded: update_task
\* has selected the row; counted: get_tasks_stats has run its count query;
\* done), the actor, the task id and the body of an update, the row as the
\* session loaded it, the count, and at the end the status, whether
\* db.commit() returned, the clock of the commit and the answer
Session(op, pc, actor, task_id, p, loaded, total, status, committed, clock, body) ==
    [op |-> op, pc |-> pc, actor |-> actor, task_id |-> task_id, p |-> p,
     loaded |-> loaded, total |-> total, status |-> status,
     committed |-> committed, clock |-> clock, body |-> body]

NoSession == Session("none", "idle", 0, 0, <<>>, None, 0, 0, FALSE, 0, <<>>)

-----------------------------------------------------------------------------
(* The tasks router: single-task handlers *)

\* The guard fetch, update, complete and delete share: the row is fetched by
\* id whoever owns it (404 when there is none), then the actor must be an
\* administrator or the owner (403).  0 stands for "go on".
GuardAuthFirst(actor, task_id) ==
    IF task_id \in DOMAIN tasks /\ role(actor) # "admin"
           /\ tasks[task_id].user_id # actor THEN 403
    ELSE IF role(actor) # "admin" /\ task_id \notin DOMAIN tasks THEN 403
    ELSE IF task_id \notin DOMAIN tasks THEN 404
    ELSE 0
GuardNone(actor, task_id) ==
    IF task_id \notin DOMAIN tasks THEN 404 ELSE 0

Guard(actor, task_id) ==
    IF task_id \notin DOMAIN tasks THEN 404
    ELSE IF role(actor) # "admin" /\ tasks[task_id].user_id # actor THEN 403
    ELSE 0

\* The dictionary get_task_by_id, get_all_tasks, update_task and complete_task
\* hand to TaskResponse: to_dict() plus days_until_deadline (and, for the two
\* readers, status_message); is_urgent is not among its keys
ResponseDict(task, clock) ==
    to_dict(task) @@
    [days_until_deadline |-> calculate_days_until_deadline(task.deadline_at, clock)]

StatusMessage(task, clock) ==
    LET days == calculate_days_until_deadline(task.deadline_at, clock)
    IN  IF ~IsNone(task.deadline_at) /\ ~IsNone(days) /\ Val(days) < 0
        THEN "overdue" ELSE "on track"

ReaderDict(task, clock) ==
    ResponseDict(task, clock) @@ [status_message |-> StatusMessage(task, clock)]

\* GET /tasks/{task_id}
get_task_by_id(actor, task_id) ==
    LET g == Guard(actor, task_id)
        d == ReaderDict(tasks[task_id], now)
    IN  /\ resp' = IF g # 0
                   THEN Response("get_task_by_id", actor, task_id, None, g, FALSE, {}, <<>>)
                   ELSE IF ~TaskResponse_valid(d)
                   THEN Response("get_task_by_id", actor, task_id, None, 500, FALSE, {}, <<>>)
                   ELSE Response("get_task_by_id", actor, task_id, None, 200, FALSE, {},
                                 <<TaskResponse(d)>>)
        /\ UNCHANGED <<tasks, next_id, now, call>>

\* TaskCreate without max_length
TaskCreate_valid_nomax(title) == Len(title) >= 1

\* TaskCreate: the title has 1 to 256 characters
TaskCreate_valid(title) == Len(title) >= 1 /\ Len(title) <= 256

\* POST /tasks/
create_task(actor, title, description, is_important, deadline_at) ==
    LET request == [title |-> title, description |-> description,
                    is_important |-> is_important, deadline_at |-> deadline_at]
    IN
    IF ~TaskCreate_valid(title)
    THEN /\ resp' = Response("create_task", actor, 0, request, 422, FALSE, {}, <<>>)
         /\ UNCHANGED <<tasks, next_id, now, call>>
    ELSE LET new_task ==
                 [id |-> next_id, title |-> title, description |-> description,
                  is_important |-> is_important,
                  quadrant |-> calculate_quadrant(is_important, deadline_at, now),
                  completed |-> FALSE, created_at |-> now, completed_at |-> None,
                  deadline_at |-> deadline_at, user_id |-> actor]
         IN  /\ next_id <= MaxId
             /\ tasks' = tasks @@ (next_id :> new_task)
             /\ next_id' = next_id + 1
             /\ resp' = Response("create_task", actor, next_id, request, 201, TRUE, {},
                                 <<from_orm(new_task, now)>>)
             /\ UNCHANGED <<now, call>>

\* The columns declared nullable=False that a request body can set
NotNullFields == {"title", "is_important", "completed"}

\* for field, value in update_data.items(): setattr(task, field, value)
\* (for a body that holds no null for a NOT NULL column)
SetSupplied(task, p) ==
    [task EXCEPT
        !.title = IF "title" \in DOMAIN p THEN Val(p.title) ELSE @,
        !.description = IF "description" \in DOMAIN p THEN p.description ELSE @,
        !.is_important = IF "is_important" \in DOMAIN p THEN Val(p.is_important) ELSE @,
        !.deadline_at = IF "deadline_at" \in DOMAIN p THEN p.deadline_at ELSE @,
        !.completed = IF "completed" \in DOMAIN p THEN Val(p.completed) ELSE @]

\* The recomputation of the quadrant after the fields are set
RecomputeAlways(task, p, clock) ==
    [task EXCEPT !.quadrant = calculate_quadrant(task.is_important, task.deadline_at, clock)]
RecomputeOnDeadline(task, p, clock) ==
    IF "deadline_at" \in DOMAIN p
    THEN [task EXCEPT !.quadrant =
              calculate_quadrant(task.is_important, task.deadline_at, clock)]
    ELSE task
RecomputeOnImportant(task, p, clock) ==
    IF "is_important" \in DOMAIN p
    THEN [task EXCEPT !.quadrant =
              calculate_quadrant(task.is_important, task.deadline_at, clock)]
    ELSE task
Recompute(task, p, clock) ==
    IF "is_important" \in DOMAIN p \/ "deadline_at" \in DOMAIN p
    THEN [task EXCEPT !.quadrant =
              calculate_quadrant(task.is_important, task.deadline_at, clock)]
    ELSE task

\* PUT /tasks/{task_id}.  p is model_dump(exclude_unset=True): the fields the
\* body supplied, an explicit null included.  A null in a NOT NULL column makes
\* db.commit() raise and the session roll back; the quadrant computed before
\* that commit is lost with it.
update_task(actor, task_id, p) ==
    LET g == Guard(actor, task_id)
        null_violation == \E f \in DOMAIN p \cap NotNullFields : IsNone(p[f])
        task == Recompute(SetSupplied(tasks[task_id], p), p, now)
        d == ResponseDict(task, now)
    IN  IF g # 0
        THEN /\ resp' = Response("update_task", actor, task_id, None, g, FALSE, DOMAIN p, <<>>)
             /\ UNCHANGED <<tasks, next_id, now, call>>
        ELSE IF null_violation
        THEN /\ resp' = Response("update_task", actor, task_id, None, 500, FALSE, DOMAIN p, <<>>)
             /\ UNCHANGED <<tasks, next_id, now, call>>
        ELSE /\ tasks' = [tasks EXCEPT ![task_id] = task]
             /\ resp' = IF TaskResponse_valid(d)
                        THEN Response("update_task", actor, task_id, None, 200, TRUE, DOMAIN p,
                                      <<TaskResponse(d)>>)
                        ELSE Response("update_task", actor, task_id, None, 500, TRUE, DOMAIN p, <<>>)
             /\ UNCHANGED <<next_id, now, call>>

\* complete_task, were it to hand the task to the caller
complete_task_reassign(actor, task_id) ==
    LET g == Guard(actor, task_id)
        task == [tasks[task_id] EXCEPT !.completed = TRUE, !.completed_at = Some(now),
                                       !.user_id = actor]
    IN  IF g # 0
        THEN /\ resp' = Response("complete_task", actor, task_id, None, g, FALSE, {}, <<>>)
             /\ UNCHANGED <<tasks, next_id, now, call>>
        ELSE /\ tasks' = [tasks EXCEPT ![task_id] = task]
             /\ resp' = Response("complete_task", actor, task_id, None, 500, TRUE, {}, <<>>)
             /\ UNCHANGED <<next_id, now, call>>

\* PATCH /tasks/{task_id}/complete
complete_task(actor, task_id) ==
    LET g == Guard(actor, task_id)
        task == [tasks[task_id] EXCEPT !.completed = TRUE, !.completed_at = Some(now)]
        d == ResponseDict(task, now)
    IN  IF g # 0
        THEN /\ resp' = Response("complete_task", actor, task_id, None, g, FALSE, {}, <<>>)
             /\ UNCHANGED <<tasks, next_id, now, call>>
        ELSE /\ tasks' = [tasks EXCEPT ![task_id] = task]
             /\ resp' = IF TaskResponse_valid(d)
                        THEN Response("complete_task", actor, task_id, None, 200, TRUE, {},
                                      <<TaskResponse(d)>>)
                        ELSE Response("complete_task", actor, task_id, None, 500, TRUE, {}, <<>>)
             /\ UNCHANGED <<next_id, now, call>>

\* delete_task, were it to delete every task of the owner
delete_task_cascade(actor, task_id) ==
    LET g == Guard(actor, task_id)
    IN  IF g # 0
        THEN /\ resp' = Response("delete_task", actor, task_id, None, g, FALSE, {}, <<>>)
             /\ UNCHANGED <<tasks, next_id, now, call>>
        ELSE /\ tasks' = [i \in {j \in DOMAIN tasks :
                                    tasks[j].user_id # tasks[task_id].user_id} |-> tasks[i]]
             /\ resp' = Response("delete_task", actor, task_id, None, 200, TRUE, {},
                                 <<[id |-> tasks[task_id].id,
                                    title |-> tasks[task_id].title]>>)
             /\ UNCHANGED <<next_id, now, call>>

\* DELETE /tasks/{task_id}: the answer carries the id and the title
delete_task(actor, task_id) ==
    LET g == Guard(actor, task_id)
    IN  IF g # 0
        THEN /\ resp' = Response("delete_task", actor, task_id, None, g, FALSE, {}, <<>>)
             /\ UNCHANGED <<tasks, next_id, now, call>>
        ELSE /\ tasks' = [i \in DOMAIN tasks \ {task_id} |-> tasks[i]]
             /\ resp' = Response("delete_task", actor, task_id, None, 200, TRUE, {},
                                 <<[id |-> tasks[task_id].id,
                                    title |-> tasks[task_id].title]>>)
             /\ UNCHANGED <<next_id, now, call>>

-----------------------------------------------------------------------------
(* The tasks router and the stats router: list handlers *)

\* [TaskResponse.from_orm(task) for task in tasks]
FromOrmAll(rows, clock) == [k \in 1..Len(rows) |-> from_orm(rows[k], clock)]

\* GET /tasks: every row in scope goes through TaskResponse(**task_dict); one
\* rejected dictionary fails the whole request
get_all_tasks(actor) ==
    LET InQuery(t) == InScope(actor, t)
        rows == Select(InQuery)
        dicts == [k \in 1..Len(rows) |-> ReaderDict(rows[k], now)]
    IN  /\ resp' = IF \E k \in 1..Len(dicts) : ~TaskResponse_valid(dicts[k])
                   THEN Response("get_all_tasks", actor, 0, None, 500, FALSE, {}, <<>>)
                   ELSE Response("get_all_tasks", actor, 0, None, 200, FALSE, {},
                                 [k \in 1..Len(dicts) |-> TaskResponse(dicts[k])])
        /\ UNCHANGED <<tasks, next_id, now, call>>

\* GET /tasks/quadrant/{quadrant}
get_tasks_by_quadrant(actor, quadrant) ==
    LET InQuery(t) == t.quadrant = quadrant /\ InScope(actor, t)
    IN  /\ resp' = IF quadrant \notin {"Q1", "Q2", "Q3", "Q4"}
                   THEN Response("get_tasks_by_quadrant", actor, 0, Some(quadrant), 400, FALSE, {}, <<>>)
                   ELSE Response("get_tasks_by_quadrant", actor, 0, Some(quadrant), 200, FALSE, {},
                                 FromOrmAll(Select(InQuery), now))
        /\ UNCHANGED <<tasks, next_id, now, call>>

\* ORDER BY deadline_at over rows that all have a deadline
DeadlineKey(t) == Val(t.deadline_at)

\* GET /tasks/today: the pending tasks whose deadline falls on the clock's
\* UTC day, by deadline
get_tasks_due_today(actor) ==
    LET today_start == (now \div SecondsPerDay) * SecondsPerDay
        today_end == today_start + SecondsPerDay
        InQuery(t) == /\ InScope(actor, t)
                      /\ ~IsNone(t.deadline_at)
                      /\ Val(t.deadline_at) >= today_start
                      /\ Val(t.deadline_at) < today_end
                      /\ t.completed = FALSE
    IN  /\ resp' = Response("get_tasks_due_today", actor, 0, None, 200, FALSE, {},
                            FromOrmAll(SortBy(DeadlineKey, Select(InQuery)), now))
        /\ UNCHANGED <<tasks, next_id, now, call>>

\* GET /tasks/search?q=: Query(..., min_length=2) rejects a missing or a short
\* q with 422; no match is a 404
search_rows(actor, q) ==
    LET InQuery(t) == /\ InScope(actor, t)
                      /\ \/ ilike(t.title, Val(q))
                         \/ ~IsNone(t.description) /\ ilike(Val(t.description), Val(q))
    IN  Select(InQuery)

\* The status, were min_length 1
search_status_min1(actor, q) ==
    IF IsNone(q) \/ Len(Val(q)) < 1 THEN 422
    ELSE IF search_rows(actor, q) = <<>> THEN 404
    ELSE 200

\* The status search_tasks answers with
search_status(actor, q) ==
    IF IsNone(q) \/ Len(Val(q)) < 2 THEN 422
    ELSE IF search_rows(actor, q) = <<>> THEN 404
    ELSE 200

search_tasks(actor, q) ==
    LET status == search_status(actor, q)
    IN  /\ resp' = Response("search_tasks", actor, 0, Some(q), status, FALSE, {},
                            IF status = 200 THEN FromOrmAll(search_rows(actor, q), now)
                            ELSE <<>>)
        /\ UNCHANGED <<tasks, next_id, now, call>>

\* GET /tasks/status/{status}
get_tasks_by_status(actor, status) ==
    LET is_completed == (status = "completed")
        InQuery(t) == t.completed = is_completed /\ InScope(actor, t)
    IN  /\ resp' = IF status \notin {"completed", "pending"}
                   THEN Response("get_tasks_by_status", actor, 0, Some(status), 400, FALSE, {}, <<>>)
                   ELSE Response("get_tasks_by_status", actor, 0, Some(status), 200, FALSE, {},
                                 FromOrmAll(Select(InQuery), now))
        /\ UNCHANGED <<tasks, next_id, now, call>>

\* GET /stats/deadlines: the pending tasks that have a deadline, by deadline
get_pending_tasks_with_deadlines(actor) ==
    LET InQuery(t) == /\ InScope(actor, t)
                      /\ t.completed = FALSE
                      /\ ~IsNone(t.deadline_at)
        rows == SortBy(DeadlineKey, Select(InQuery))
    IN  /\ resp' = Response("get_pending_tasks_with_deadlines", actor, 0, None, 200, FALSE, {},
                [k \in 1..Len(rows) |->
                    [id |-> rows[k].id, title |-> rows[k].title,
                     description |-> rows[k].description,
                     created_at |-> rows[k].created_at,
                     deadline_at |-> rows[k].deadline_at,
                     days_until_deadline |->
                         stats_days_until_deadline(rows[k].deadline_at, now),
                     is_urgent |-> stats_calculate_is_urgent(rows[k].deadline_at, now),
                     quadrant |-> rows[k].quadrant, user_id |-> rows[k].user_id,
                     is_own_task |-> (rows[k].user_id = actor)]])
        /\ UNCHANGED <<tasks, next_id, now, call>>

\* The sort key, were the order descending
UrgentKey_desc(x) ==
    IF IsNone(x.days_until_deadline) THEN 1000000000 ELSE -Val(x.days_until_deadline)

\* The sort key of get_urgent_tasks: no days_until_deadline sorts as infinity
UrgentKey(x) ==
    IF IsNone(x.days_until_deadline) THEN 1000000000 ELSE Val(x.days_until_deadline)

\* GET /stats/urgent: the pending tasks in scope that are urgent now, by days
\* left
get_urgent_tasks(actor) ==
    LET InQuery(t) == InScope(actor, t)
        IsUrgentPending(t) == stats_calculate_is_urgent(t.deadline_at, now) /\ ~t.completed
        all_tasks == Select(InQuery)
        urgent_tasks == SelectSeq(all_tasks, IsUrgentPending)
        items == [k \in 1..Len(urgent_tasks) |->
                    [id |-> urgent_tasks[k].id, title |-> urgent_tasks[k].title,
                     description |-> urgent_tasks[k].description,
                     deadline_at |-> urgent_tasks[k].deadline_at,
                     days_until_deadline |->
                         stats_days_until_deadline(urgent_tasks[k].deadline_at, now),
                     quadrant |-> urgent_tasks[k].quadrant,
                     user_id |-> urgent_tasks[k].user_id,
                     is_own_task |-> (urgent_tasks[k].user_id = actor)]]
    IN  /\ resp' = Response("get_urgent_tasks", actor, 0, None, 200, FALSE, {},
                            SortBy(UrgentKey, items))
        /\ UNCHANGED <<tasks, next_id, now, call>>

\* The number of rows that satisfy Cond: select(func.count(Task.id)).where(...)
Count(P(_)) == Cardinality({i \in DOMAIN tasks : P(tasks[i])})

\* round(num / den, 0) for den > 0, an exact half going to the even neighbour
\* as Python's round does
RoundDiv(num, den) ==
    LET q == num \div den
        r == num % den
    IN  IF 2 * r < den THEN q
        ELSE IF 2 * r > den THEN q + 1
        ELSE IF q % 2 = 0 THEN q ELSE q + 1

\* round(completed / total * 100, 2) if total > 0 else 0, in hundredths of a
\* percent
completion_rate(completed, total) ==
    IF total > 0 THEN RoundDiv(completed * 100 * 100, total) ELSE 0

\* GET /stats/: the counts over the tasks in scope; the overdue count takes
\* every task with a deadline whose days_until_deadline is negative
stats_body(actor, total_tasks) ==
    LET InQuery(t) == InScope(actor, t)
        Completed(t) == InQuery(t) /\ t.completed
        Pending(t) == InQuery(t) /\ ~t.completed
        WithDeadline(t) == InQuery(t) /\ ~IsNone(t.deadline_at)
        WithoutDeadline(t) == InQuery(t) /\ IsNone(t.deadline_at)
        Urgent(t) == WithDeadline(t) /\ stats_calculate_is_urgent(t.deadline_at, now)
        Overdue(t) ==
            /\ WithDeadline(t)
            /\ LET days == stats_days_until_deadline(t.deadline_at, now)
               IN  ~IsNone(days) /\ Val(days) < 0
    IN  [total_tasks |-> total_tasks,
         by_quadrant |->
             [q \in Quadrants |->
                 Cardinality({i \in DOMAIN tasks :
                     InQuery(tasks[i]) /\ tasks[i].quadrant = q})],
         by_status |-> [completed |-> Count(Completed),
                        pending |-> Count(Pending)],
         deadlines |-> [with_deadline |-> Count(WithDeadline),
                        without_deadline |-> Count(WithoutDeadline),
                        urgent |-> Count(Urgent),
                        overdue |-> Count(Overdue)],
         completion_rate |-> completion_rate(Count(Completed), total_tasks)]

\* The count query of get_tasks_stats: select(func.count(Task.id)) in scope
stats_total(actor) == Cardinality({i \in DOMAIN tasks : InScope(actor, tasks[i])})

\* GET /stats/ served without another request in between
get_tasks_stats(actor) ==
    /\ resp' = Response("get_tasks_stats", actor, 0, None, 200, FALSE, {},
                        <<stats_body(actor, stats_total(actor))>>)
    /\ UNCHANGED <<tasks, next_id, now, call>>

\* GET /stats/summary: the query of the urgent count applies the Python helper
\* calculate_is_urgent to the column Task.deadline_at; (column - now) has no
\* total_seconds(), the helper raises and the request ends in a server error
get_stats_summary(actor) ==
    /\ resp' = Response("get_stats_summary", actor, 0, None, 500, FALSE, {}, <<>>)
    /\ UNCHANGED <<tasks, next_id, now, call>>

\* average_daily without the test of days > 0, dividing by 1 instead
average_daily_nozero(total_completed, days) ==
    RoundDiv(total_completed * 100, IF days > 0 THEN days ELSE 1)

\* average_daily: round(total_completed / days, 2) if days > 0 else 0, in
\* hundredths
average_daily(total_completed, days) ==
    IF days > 0 THEN RoundDiv(total_completed * 100, days) ELSE 0

\* func.date(Task.completed_at): the day of a timestamp
date(seconds) == seconds \div SecondsPerDay

\* GET /stats/productivity?days=n: the completions since now - n days, by day
get_productivity_stats(actor, days) ==
    LET start_date == now - days * SecondsPerDay
        InQuery(t) == /\ InScope(actor, t)
                      /\ t.completed = TRUE
                      /\ ~IsNone(t.completed_at)
                      /\ Val(t.completed_at) >= start_date
        rows == {i \in DOMAIN tasks : InQuery(tasks[i])}
        dates == Ascending({date(Val(tasks[i].completed_at)) : i \in rows})
        daily_stats ==
            [k \in 1..Len(dates) |->
                [date |-> dates[k],
                 tasks_completed |->
                     Cardinality({i \in rows :
                         date(Val(tasks[i].completed_at)) = dates[k]})]]
        Sum[k \in 0..Len(daily_stats)] ==
            IF k = 0 THEN 0 ELSE Sum[k - 1] + daily_stats[k].tasks_completed
        total_completed == Sum[Len(daily_stats)]
    IN  /\ resp' = Response("get_productivity_stats", actor, 0, Some(days), 200, FALSE, {},
                <<[period_days |-> days,
                   start_date |-> start_date,
                   end_date |-> now,
                   daily_completions |-> daily_stats,
                   total_completed |-> total_completed,
                   average_daily |-> average_daily(total_completed, days)]>>)
        /\ UNCHANGED <<tasks, next_id, now, call>>

-----------------------------------------------------------------------------
(* The admin router *)

\* GET /admin/users/{user_id}/tasks, called by an administrator: the tasks of
\* the user, each with days_until_deadline and is_overdue
get_user_tasks(admin, user_id) ==
    IF user_id \notin Users
    THEN /\ resp' = Response("get_user_tasks", admin, 0, Some(user_id), 404, FALSE, {}, <<>>)
         /\ UNCHANGED <<tasks, next_id, now, call>>
    ELSE LET OfUser(t) == t.user_id = user_id
             rows == Select(OfUser)
             Item(task) ==
                 IF ~IsNone(task.deadline_at)
                 THEN LET days_left == timedelta_days(Val(task.deadline_at) - now)
                      IN  to_dict(task) @@
                          [days_until_deadline |-> Some(days_left),
                           is_overdue |-> (days_left < 0 /\ ~task.completed)]
                 ELSE to_dict(task) @@
                      [days_until_deadline |-> None, is_overdue |-> FALSE]
         IN  /\ resp' = Response("get_user_tasks", admin, 0, Some(user_id), 200, FALSE, {},
                                 [k \in 1..Len(rows) |-> Item(rows[k])])
             /\ UNCHANGED <<tasks, next_id, now, call>>

-----------------------------------------------------------------------------
(* The clock *)

\* A day passes
Tick ==
    /\ now < MaxDays * SecondsPerDay
    /\ now' = now + SecondsPerDay
    /\ UNCHANGED <<tasks, next_id, resp, call>>

\* The answer reaches the caller: the request is over
Deliver ==
    /\ resp.op # "none"
    /\ resp' = NoResponse
    /\ UNCHANGED <<tasks, next_id, now, nops, call, sessions>>

-----------------------------------------------------------------------------
(* The request bodies and parameters the model sends *)

\* A title one character longer than TaskBase allows
TextLong == [k \in 1..(256 + 1) |-> "a"]
CreateTitles == {TextA, <<>>, TextLong}
Descriptions == {None, Some(TextX)}
OptDeadlines == {None} \cup {Some(d) : d \in Deadlines}
UpdateFields == {"title", "description", "is_important", "deadline_at", "completed"}

\* The values a body can give a field, an explicit null included: a column
\* value for the nullable columns, Some(v) or None (null) for the others
UpdateValues(f) ==
    CASE f = "title" -> {Some(TextX), None}
      [] f = "description" -> Descriptions
      [] f = "is_important" -> {Some(TRUE), Some(FALSE), None}
      [] f = "deadline_at" -> OptDeadlines
      [] f = "completed" -> {Some(TRUE), Some(FALSE), None}


\* The bodies that supply exactly the fields of S
RECURSIVE BodiesOn(_)
BodiesOn(S) ==
    IF S = {} THEN {<<>>}
    ELSE LET f == CHOOSE x \in S : TRUE
         IN  {(f :> v) @@ p : v \in UpdateValues(f), p \in BodiesOn(S \ {f})}

\* The sets of fields a body supplies in the model: none, one, or two of which
\* one is is_important
SuppliedSets ==
    {S \in SUBSET UpdateFields :
        Cardinality(S) <= 1 \/ (Cardinality(S) = 2 /\ "is_important" \in S)}

TaskIds == 1..MaxId
QuadrantParams == Quadrants \cup {"Q5"}
StatusParams == {"completed", "pending", "done"}
WindowDays == {-1, 0, 7}
NoSuchUser == 4
UserIdParams == Users \cup {NoSuchUser}
SearchParams == {None, Some(<<"a">>), Some(<<"a", "B">>), Some(<<"X", "y">>)}

-----------------------------------------------------------------------------
(* The specification of the service *)

Init ==
    /\ tasks = <<>>
    /\ next_id = 1
    /\ now = 0
    /\ resp = NoResponse
    /\ nops = 0
    /\ call = NoCall
    /\ sessions = [r \in Requests |-> NoSession]

\* Requests are served one at a time: a handler runs when the previous answer
\* has been delivered
Idle == resp.op = "none"

\* The step is counted when it changed the table or the clock
Counted ==
    /\ nops' = IF tasks' # tasks \/ now' # now THEN nops + 1 ELSE nops
    /\ nops' <= MaxOps
    /\ UNCHANGED sessions

GetTaskById ==
    /\ Idle
    /\ \E a \in Users, i \in TaskIds : get_task_by_id(a, i)
    /\ Counted
CreateTask ==
    /\ Idle
    /\ \E a \in Users, title \in CreateTitles, description \in Descriptions,
          is_important \in BOOLEAN, deadline_at \in OptDeadlines :
           create_task(a, title, description, is_important, deadline_at)
    /\ Counted
UpdateTask ==
    /\ Idle
    /\ \E a \in Users, i \in TaskIds, S \in SuppliedSets :
           \E p \in BodiesOn(S) : update_task(a, i, p)
    /\ Counted
CompleteTask ==
    /\ Idle
    /\ \E a \in Users, i \in TaskIds : complete_task(a, i)
    /\ Counted
DeleteTask ==
    /\ Idle
    /\ \E a \in Users, i \in TaskIds : delete_task(a, i)
    /\ Counted
GetAllTasks ==
    /\ Idle
    /\ \E a \in Users : get_all_tasks(a)
    /\ Counted
GetTasksByQuadrant ==
    /\ Idle
    /\ \E a \in Users, q \in QuadrantParams : get_tasks_by_quadrant(a, q)
    /\ Counted
GetTasksDueToday ==
    /\ Idle
    /\ \E a \in Users : get_tasks_due_today(a)
    /\ Counted
SearchTasks ==
    /\ Idle
    /\ \E a \in Users, q \in SearchParams : search_tasks(a, q)
    /\ Counted
GetTasksByStatus ==
    /\ Idle
    /\ \E a \in Users, st \in StatusParams : get_tasks_by_status(a, st)
    /\ Counted
GetPendingTasksWithDeadlines ==
    /\ Idle
    /\ \E a \in Users : get_pending_tasks_with_deadlines(a)
    /\ Counted
GetUrgentTasks ==
    /\ Idle
    /\ \E a \in Users : get_urgent_tasks(a)
    /\ Counted
GetTasksStats ==
    /\ Idle
    /\ \E a \in Users : get_tasks_stats(a)
    /\ Counted
GetStatsSummary ==
    /\ Idle
    /\ \E a \in Users : get_stats_summary(a)
    /\ Counted
GetProductivityStats ==
    /\ Idle
    /\ \E a \in Users, days \in WindowDays : get_productivity_stats(a, days)
    /\ Counted
GetUserTasks ==
    /\ Idle
    /\ \E a \in {u \in Users : role(u) = "admin"}, user_id \in UserIdParams :
           get_user_tasks(a, user_id)
    /\ Counted
DayPasses ==
    /\ Idle
    /\ Tick
    /\ Counted

Next ==
    \/ GetTaskById
    \/ CreateTask
    \/ UpdateTask
    \/ CompleteTask
    \/ DeleteTask
    \/ GetAllTasks
    \/ GetTasksByQuadrant
    \/ GetTasksDueToday
    \/ SearchTasks
    \/ GetTasksByStatus
    \/ GetPendingTasksWithDeadlines
    \/ GetUrgentTasks
    \/ GetTasksStats
    \/ GetStatsSummary
    \/ GetProductivityStats
    \/ GetUserTasks
    \/ DayPasses
    \/ Deliver

Spec == Init /\ [][Next]_vars

-----------------------------------------------------------------------------
(* Requests in progress at the same time: update_task and get_tasks_stats    *)
(* run two statements each, and another request can commit between them      *)

\* update_task up to the row it works on: the select, then 404 or 403
update_select(r, actor, task_id, p) ==
    LET g == Guard(actor, task_id)
    IN  /\ sessions[r].pc = "idle"
        /\ sessions' = [sessions EXCEPT ![r] =
               IF g # 0
               THEN Session("update_task", "done", actor, task_id, p, None, 0, g,
                            FALSE, now, <<>>)
               ELSE Session("update_task", "loaded", actor, task_id, p,
                            Some(tasks[task_id]), 0, 0, FALSE, now, <<>>)]
        /\ UNCHANGED <<tasks, next_id, now, resp, call>>

\* The UPDATE the session flushes at db.commit(): the columns whose value on
\* the object differs from the loaded one, written to the row as it is now
Flush(row, loaded, obj) ==
    [c \in Columns |-> IF obj[c] # loaded[c] THEN obj[c] ELSE row[c]]

\* update_task from the setattr loop on: the fields are set on the loaded
\* object, the quadrant is recomputed from that object, and db.commit() writes
\* the changed columns; an UPDATE that finds no row (the task was deleted
\* meanwhile) or that puts a null in a NOT NULL column raises
update_commit(r) ==
    LET ses == sessions[r]
        loaded == Val(ses.loaded)
        null_violation == \E f \in DOMAIN ses.p \cap NotNullFields : IsNone(ses.p[f])
        obj == Recompute(SetSupplied(loaded, ses.p), ses.p, now)
        row == Flush(tasks[ses.task_id], loaded, obj)
        d == ResponseDict(row, now)
    IN  /\ ses.op = "update_task"
        /\ ses.pc = "loaded"
        /\ IF null_violation \/ (obj # loaded /\ ses.task_id \notin DOMAIN tasks)
           THEN /\ sessions' = [sessions EXCEPT ![r] =
                       [ses EXCEPT !.pc = "done", !.status = 500, !.clock = now]]
                /\ UNCHANGED tasks
           ELSE IF ses.task_id \notin DOMAIN tasks
           THEN /\ sessions' = [sessions EXCEPT ![r] =
                       [ses EXCEPT !.pc = "done", !.status = 500, !.committed = TRUE,
                                   !.clock = now]]
                /\ UNCHANGED tasks
           ELSE /\ tasks' = [tasks EXCEPT ![ses.task_id] = row]
                /\ sessions' = [sessions EXCEPT ![r] =
                       [ses EXCEPT !.pc = "done",
                                   !.status = IF TaskResponse_valid(d) THEN 200 ELSE 500,
                                   !.committed = TRUE, !.clock = now,
                                   !.body = IF TaskResponse_valid(d)
                                            THEN <<TaskResponse(d)>> ELSE <<>>]]
        /\ UNCHANGED <<next_id, now, resp, nops, call>>

\* get_tasks_stats, its first query: the count of the tasks in scope
stats_count(r, actor) ==
    /\ sessions[r].pc = "idle"
    /\ sessions' = [sessions EXCEPT ![r] =
           Session("get_tasks_stats", "counted", actor, 0, <<>>, None,
                   stats_total(actor), 0, FALSE, now, <<>>)]
    /\ UNCHANGED <<tasks, next_id, now, resp, call>>

\* get_tasks_stats, its second query and the answer: the buckets over the
\* tasks in scope now, with the total of the count query
stats_tasks(r) ==
    LET ses == sessions[r]
    IN  /\ ses.op = "get_tasks_stats"
        /\ ses.pc = "counted"
        /\ sessions' = [sessions EXCEPT ![r] =
               [ses EXCEPT !.pc = "done", !.status = 200, !.clock = now,
                           !.body = <<stats_body(ses.actor, ses.total)>>]]
        /\ UNCHANGED <<tasks, next_id, now, resp, nops, call>>

\* The answer of a request in progress reaches its caller
session_end(r) ==
    /\ sessions[r].pc = "done"
    /\ sessions' = [sessions EXCEPT ![r] = NoSession]
    /\ UNCHANGED <<tasks, next_id, now, resp, nops, call>>

\* The bodies of the updates in progress
RaceBodies ==
    {[is_important |-> Some(TRUE)], [deadline_at |-> Some(DeadlineNoon)],
     [title |-> Some(TextX)], [title |-> None]}

\* A request that starts is counted, and starts while nops < MaxOps
Started == nops' = nops + 1

\* The requests in progress are numbered in the order they start
Free(r) == \A q \in Requests : q < r => sessions[q].pc # "idle"

UpdateSelect ==
    /\ nops < MaxOps
    /\ \E r \in Requests, a \in Users, i \in TaskIds, p \in RaceBodies :
           Free(r) /\ update_select(r, a, i, p)
    /\ Started
UpdateCommit == \E r \in Requests : update_commit(r)
StatsCount ==
    /\ nops < MaxOps
    /\ \E r \in Requests, a \in Users : Free(r) /\ stats_count(r, a)
    /\ Started
StatsTasks == \E r \in Requests : stats_tasks(r)
SessionEnd == \E r \in Requests : session_end(r)
\* The tasks created while requests are in progress have one title and no
\* description
RaceCreateTask ==
    /\ Idle
    /\ \E a \in Users, is_important \in BOOLEAN, deadline_at \in OptDeadlines :
           create_task(a, TextA, None, is_important, deadline_at)
    /\ Counted

RaceNext ==
    \/ UpdateSelect
    \/ UpdateCommit
    \/ StatsCount
    \/ StatsTasks
    \/ SessionEnd
    \/ RaceCreateTask
    \/ DeleteTask
    \/ DayPasses
    \/ Deliver

RaceSpec == Init /\ [][RaceNext]_vars

-----------------------------------------------------------------------------
(* The specification of the pure helpers: the arguments are drawn at the     *)
(* start, each step evaluates one helper on them                             *)

\* The clock readings and the distances from the clock to the deadline, in
\* seconds, the helpers are evaluated on
PureClocks == {0, 1000, 400 * SecondsPerDay + 17}
PureOffsets ==
    {-(SecondsPerDay + 1), -SecondsPerDay, -(60 * 60), -1, 0, 1,
     SecondsPerDay - 1, SecondsPerDay, 25 * 60 * 60,
     URGENT_SECONDS - 1, URGENT_SECONDS, URGENT_SECONDS + 1, 4 * SecondsPerDay}

PureInit ==
    /\ tasks = <<>>
    /\ next_id = 1
    /\ now \in PureClocks
    /\ resp = NoResponse
    /\ nops = 0
    /\ sessions = [r \in Requests |-> NoSession]
    /\ \E is_important \in BOOLEAN :
       \E deadline_at \in {None} \cup {Some(now + d) : d \in PureOffsets} :
           call = Call("none", is_important, deadline_at, now, "", FALSE, None)

Eval_calculate_quadrant ==
    /\ call' = [call EXCEPT !.fn = "calculate_quadrant",
                   !.quadrant = calculate_quadrant(call.is_important, call.deadline_at, now),
                   !.urgent = FALSE, !.days = None]
    /\ UNCHANGED <<tasks, next_id, now, resp, nops, sessions>>

Eval_calculate_days_until_deadline ==
    /\ call' = [call EXCEPT !.fn = "calculate_days_until_deadline",
                   !.days = calculate_days_until_deadline(call.deadline_at, now),
                   !.quadrant = "", !.urgent = FALSE]
    /\ UNCHANGED <<tasks, next_id, now, resp, nops, sessions>>

Eval_Task_calculate_is_urgent ==
    /\ call' = [call EXCEPT !.fn = "Task.calculate_is_urgent",
                   !.urgent = Task_calculate_is_urgent(call.deadline_at, now),
                   !.quadrant = "", !.days = None]
    /\ UNCHANGED <<tasks, next_id, now, resp, nops, sessions>>

Eval_Task_days_until_deadline ==
    /\ call' = [call EXCEPT !.fn = "Task.days_until_deadline",
                   !.days = Task_days_until_deadline(call.deadline_at, now),
                   !.quadrant = "", !.urgent = FALSE]
    /\ UNCHANGED <<tasks, next_id, now, resp, nops, sessions>>

Eval_stats_calculate_is_urgent ==
    /\ call' = [call EXCEPT !.fn = "stats.calculate_is_urgent",
                   !.urgent = stats_calculate_is_urgent(call.deadline_at, now),
                   !.quadrant = "", !.days = None]
    /\ UNCHANGED <<tasks, next_id, now, resp, nops, sessions>>

Eval_stats_days_until_deadline ==
    /\ call' = [call EXCEPT !.fn = "stats.days_until_deadline",
                   !.days = stats_days_until_deadline(call.deadline_at, now),
                   !.quadrant = "", !.urgent = FALSE]
    /\ UNCHANGED <<tasks, next_id, now, resp, nops, sessions>>

PureNext ==
    \/ Eval_calculate_quadrant
    \/ Eval_calculate_days_until_deadline
    \/ Eval_Task_calculate_is_urgent
    \/ Eval_Task_days_until_deadline
    \/ Eval_stats_calculate_is_urgent
    \/ Eval_stats_days_until_deadline

PureSpec == PureInit /\ [][PureNext]_vars

-----------------------------------------------------------------------------
(* Properties.  The reference definitions below restate the specification's  *)
(* classification engine; they do not use the helpers of the code.           *)

ThreeDays == 3 * SecondsPerDay

\* urgency(deadline_at, clock) of the specification
SpecUrgency(deadline_at, clock) ==
    ~IsNone(deadline_at) /\ Val(deadline_at) <= clock + ThreeDays

\* quadrant(is_important, deadline_at, clock) of the specification
SpecQuadrant(is_important, deadline_at, clock) ==
    LET u == SpecUrgency(deadline_at, clock)
    IN  CASE is_important /\ u -> "Q1"
          [] is_important /\ ~u -> "Q2"
          [] ~is_important /\ u -> "Q3"
          [] ~is_important /\ ~u -> "Q4"

\* days is the floor of (deadline_at - clock) in days, or both are absent
IsFloorDays(days, deadline_at, clock) ==
    IF IsNone(deadline_at) THEN IsNone(days)
    ELSE /\ ~IsNone(days)
         /\ Val(days) * SecondsPerDay <= Val(deadline_at) - clock
         /\ Val(deadline_at) - clock < (Val(days) + 1) * SecondsPerDay

ListOps == {"get_all_tasks", "get_tasks_by_quadrant", "get_tasks_due_today",
            "search_tasks", "get_tasks_by_status",
            "get_pending_tasks_with_deadlines", "get_urgent_tasks"}
ItemOps == {"get_task_by_id", "update_task", "complete_task", "delete_task"}
WriteOps == {"create_task", "update_task", "complete_task", "delete_task"}

\* The ids of the tasks a response body lists
BodyIds(r) == {r.body[k].id : k \in 1..Len(r.body)}

\* Whether the request of a list handler is well formed
WellFormed(r) ==
    CASE r.op = "get_tasks_by_quadrant" -> Val(r.param) \in Quadrants
      [] r.op = "get_tasks_by_status" -> Val(r.param) \in {"completed", "pending"}
      [] r.op = "search_tasks" -> ~IsNone(Val(r.param)) /\ Len(Val(Val(r.param))) >= 2
      [] OTHER -> TRUE

\* Whether a text contains q, case ignored
Contains(text, q) ==
    \E k \in 1..Len(text) :
        /\ k + Len(q) - 1 <= Len(text)
        /\ \A j \in 1..Len(q) : LowerChar(text[k + j - 1]) = LowerChar(q[j])

\* The filter of a list handler itself, the owner left aside
OwnFilter(r, t, clock) ==
    CASE r.op = "get_all_tasks" -> TRUE
      [] r.op = "get_tasks_by_quadrant" -> t.quadrant = Val(r.param)
      [] r.op = "get_tasks_due_today" ->
            /\ ~t.completed
            /\ ~IsNone(t.deadline_at)
            /\ \E day \in 0..MaxDays :
                  /\ day * SecondsPerDay <= clock
                  /\ clock < (day + 1) * SecondsPerDay
                  /\ day * SecondsPerDay <= Val(t.deadline_at)
                  /\ Val(t.deadline_at) < (day + 1) * SecondsPerDay
      [] r.op = "search_tasks" ->
            \/ Contains(t.title, Val(Val(r.param)))
            \/ ~IsNone(t.description) /\ Contains(Val(t.description), Val(Val(r.param)))
      [] r.op = "get_tasks_by_status" -> t.completed = (Val(r.param) = "completed")
      [] r.op = "get_pending_tasks_with_deadlines" ->
            ~t.completed /\ ~IsNone(t.deadline_at)
      [] r.op = "get_urgent_tasks" ->
            ~t.completed /\ SpecUrgency(t.deadline_at, clock)

\* C1: every list handler of the tasks router and of the stats router answers
\* a plain user with tasks of that user only, and answers an administrator
\* with every task that passes the handler's own filter, whoever owns it.
C1_ListVisibility ==
    resp.op \in ListOps =>
        /\ role(resp.actor) # "admin" =>
              \A i \in BodyIds(resp) : i \in DOMAIN tasks /\ tasks[i].user_id = resp.actor
        /\ (role(resp.actor) = "admin" /\ WellFormed(resp)) =>
              BodyIds(resp) = {i \in DOMAIN tasks : OwnFilter(resp, tasks[i], now)}

\* C2: fetch, update, complete and delete answer NotFound exactly when no task
\* has the id, whoever asks, and Forbidden exactly when the task exists and
\* the actor is a plain user who does not own it.
C2_NotFoundVsForbidden ==
    [][(Idle /\ resp'.op \in ItemOps) =>
          LET i == resp'.task_id
              a == resp'.actor
              k == Kind(resp'.status)
              missing == i \notin DOMAIN tasks
              foreign == i \in DOMAIN tasks /\ role(a) # "admin" /\ tasks[i].user_id # a
          IN  /\ missing => k = "NotFound"
              /\ foreign => k = "Forbidden"
              /\ k = "NotFound" => missing
              /\ k = "Forbidden" => foreign]_vars

\* C2 happens: a plain user was refused a task of another user, and the task
\* is there
C2_Witness ==
    /\ resp.op = "get_task_by_id"
    /\ Kind(resp.status) = "Forbidden"
    /\ role(resp.actor) = "user"
    /\ resp.task_id \in DOMAIN tasks
    /\ tasks[resp.task_id].user_id \notin {1, resp.actor}

\* C3: a write request of a plain user leaves every task of another owner in
\* place with all its columns, and a request answered Forbidden or NotFound
\* leaves the whole table as it was.
C3_OthersUntouched ==
    [][(Idle /\ resp'.op \in WriteOps) =>
          /\ role(resp'.actor) # "admin" =>
                \A i \in DOMAIN tasks :
                    tasks[i].user_id # resp'.actor =>
                        i \in DOMAIN tasks' /\ tasks'[i] = tasks[i]
          /\ Kind(resp'.status) \in {"Forbidden", "NotFound"} => tasks' = tasks]_vars

\* C3 happens: a plain user asked to delete a task of another user, was
\* refused, and the task is still there
C3_Witness ==
    /\ resp.op = "delete_task"
    /\ Kind(resp.status) = "Forbidden"
    /\ role(resp.actor) = "user"
    /\ resp.task_id \in DOMAIN tasks
    /\ tasks[resp.task_id].user_id # resp.actor
    /\ Cardinality(DOMAIN tasks) = 2

\* C4: every stored task has completed_at set if and only if completed is
\* true.
C4_CompletedAtIffCompleted ==
    \A i \in DOMAIN tasks : tasks[i].completed <=> ~IsNone(tasks[i].completed_at)


\* A step in which update_task committed its changes to task i
UpdateCommitted(i) ==
    /\ Idle
    /\ resp'.op = "update_task"
    /\ resp'.committed
    /\ resp'.task_id = i

\* A step in which create_task committed task i
CreateCommitted(i) ==
    /\ Idle
    /\ resp'.op = "create_task"
    /\ resp'.committed
    /\ resp'.task_id = i

RecomputeFields == {"is_important", "deadline_at"}

\* C5: after an update that committed and supplied is_important or
\* deadline_at, the stored quadrant is the specification's quadrant of the
\* resulting is_important and deadline_at at the clock of the update, the
\* field not supplied being the one of the existing row; is_important = true
\* alone on a task without deadline gives Q2.
C5_UpdateRecomputesQuadrant ==
    [][\A i \in TaskIds :
          (UpdateCommitted(i) /\ resp'.supplied \cap RecomputeFields # {}) =>
              /\ "is_important" \notin resp'.supplied =>
                    tasks'[i].is_important = tasks[i].is_important
              /\ "deadline_at" \notin resp'.supplied =>
                    tasks'[i].deadline_at = tasks[i].deadline_at
              /\ tasks'[i].quadrant =
                    SpecQuadrant(tasks'[i].is_important, tasks'[i].deadline_at, now)
              /\ (/\ resp'.supplied = {"is_important"}
                  /\ tasks'[i].is_important
                  /\ IsNone(tasks[i].deadline_at)) => tasks'[i].quadrant = "Q2"]_vars

\* C5 happens: an update that supplied is_important alone was committed on a
\* task without deadline, which is now important and in Q2
C5_Witness ==
    /\ resp.op = "update_task"
    /\ resp.committed
    /\ resp.supplied = {"is_important"}
    /\ resp.task_id \in DOMAIN tasks
    /\ tasks[resp.task_id].is_important
    /\ IsNone(tasks[resp.task_id].deadline_at)
    /\ tasks[resp.task_id].quadrant = "Q2"

\* C6 as stated: a committed update changes only the columns its body
\* supplied, every other column (the quadrant among them) keeps its value.
C6_OnlySuppliedChange ==
    [][\A i \in TaskIds :
          UpdateCommitted(i) =>
              \A c \in Columns \ resp'.supplied : tasks'[i][c] = tasks[i][c]]_vars

\* C6 amended: a committed update changes only the columns its body supplied
\* and, when the body supplied is_important or deadline_at, the quadrant; an
\* update that supplies the title alone leaves deadline_at, is_important,
\* quadrant, completed and completed_at as they were, whatever the clock.
C6_OnlySuppliedAndQuadrantChange ==
    [][\A i \in TaskIds :
          UpdateCommitted(i) =>
              /\ \A c \in Columns \ (resp'.supplied \cup {"quadrant"}) :
                    tasks'[i][c] = tasks[i][c]
              /\ resp'.supplied \cap RecomputeFields = {} =>
                    tasks'[i].quadrant = tasks[i].quadrant
              /\ resp'.supplied = {"title"} =>
                    /\ tasks'[i].deadline_at = tasks[i].deadline_at
                    /\ tasks'[i].is_important = tasks[i].is_important
                    /\ tasks'[i].quadrant = tasks[i].quadrant
                    /\ tasks'[i].completed = tasks[i].completed
                    /\ tasks'[i].completed_at = tasks[i].completed_at]_vars

\* C6 happens: a title-only update was committed a day after the task was
\* created, when the stored quadrant no longer is the quadrant of the clock
C6_Witness ==
    /\ resp.op = "update_task"
    /\ resp.committed
    /\ resp.supplied = {"title"}
    /\ resp.task_id \in DOMAIN tasks
    /\ tasks[resp.task_id].title = TextX
    /\ tasks[resp.task_id].created_at < now
    /\ tasks[resp.task_id].quadrant #
          SpecQuadrant(tasks[resp.task_id].is_important,
                       tasks[resp.task_id].deadline_at, now)

\* C7 as stated: after every committed create or update of a task, the stored
\* quadrant is the specification's quadrant of the stored is_important and
\* deadline_at at the clock of that write.
C7_QuadrantOfLastWrite ==
    [][\A i \in TaskIds :
          (CreateCommitted(i) \/ UpdateCommitted(i)) =>
              tasks'[i].quadrant =
                  SpecQuadrant(tasks'[i].is_important, tasks'[i].deadline_at, now)]_vars

\* A step that writes is_important or deadline_at of task i: its creation, or
\* a committed update whose body supplied one of the two
ClassifyingWrite(i) ==
    \/ CreateCommitted(i)
    \/ UpdateCommitted(i) /\ resp'.supplied \cap RecomputeFields # {}

\* C7 amended: the stored quadrant is the specification's quadrant of the
\* stored is_important and deadline_at at the clock of the most recent write
\* that set is_important or deadline_at (the creation, or an update that
\* supplied one of the two): such a write stores that quadrant, and every
\* other step keeps quadrant, is_important and deadline_at as they were.
C7_QuadrantOfLastClassifyingWrite ==
    [][\A i \in TaskIds :
          /\ ClassifyingWrite(i) =>
                tasks'[i].quadrant =
                    SpecQuadrant(tasks'[i].is_important, tasks'[i].deadline_at, now)
          /\ (~ClassifyingWrite(i) /\ i \in DOMAIN tasks /\ i \in DOMAIN tasks') =>
                /\ tasks'[i].quadrant = tasks[i].quadrant
                /\ tasks'[i].is_important = tasks[i].is_important
                /\ tasks'[i].deadline_at = tasks[i].deadline_at]_vars

\* C7 happens: a task created at the start with the deadline of day 4 was
\* completed a day later, and its stored quadrant still is the one of its
\* creation, not the one of the clock
C7_Witness ==
    /\ resp.op = "complete_task"
    /\ resp.committed
    /\ resp.task_id \in DOMAIN tasks
    /\ tasks[resp.task_id].created_at = 0
    /\ now = SecondsPerDay
    /\ tasks[resp.task_id].deadline_at = Some(DeadlineDay4)
    /\ tasks[resp.task_id].quadrant =
          SpecQuadrant(tasks[resp.task_id].is_important, Some(DeadlineDay4), 0)
    /\ tasks[resp.task_id].quadrant #
          SpecQuadrant(tasks[resp.task_id].is_important, Some(DeadlineDay4), now)

FoundUrgent == IF call.fn = "calculate_quadrant" THEN call.quadrant \in {"Q1", "Q3"}
               ELSE call.urgent

UrgencyFns == {"calculate_quadrant", "Task.calculate_is_urgent",
               "stats.calculate_is_urgent"}

DaysFns == {"calculate_days_until_deadline", "Task.days_until_deadline",
            "stats.days_until_deadline"}

\* C10: each days-until-deadline computation (tasks.calculate_days_until_deadline,
\* Task.days_until_deadline, stats.days_until_deadline) answers null without
\* deadline and otherwise the floor of deadline - clock in days: 1 for 25 hours
\* ahead, 0 for less than 24 hours ahead, -1 for an hour ago; being the floor,
\* the three agree.
C10_DaysFloor ==
    call.fn \in DaysFns =>
        /\ IsFloorDays(call.days, call.deadline_at, call.clock)
        /\ ~IsNone(call.deadline_at) =>
              LET d == Val(call.deadline_at) - call.clock
              IN  /\ d = 25 * 60 * 60 => call.days = Some(1)
                  /\ (d >= 0 /\ d < 24 * 60 * 60) => call.days = Some(0)
                  /\ d = -(60 * 60) => call.days = Some(-1)

\* C10 happens: stats.days_until_deadline answered -1 for a deadline an hour ago
C10_Witness ==
    /\ call.fn = "stats.days_until_deadline"
    /\ call.deadline_at = Some(call.clock - 60 * 60)
    /\ call.days = Some(-1)


\* The tasks an actor's statistics range over
Scope(actor) == {i \in DOMAIN tasks : role(actor) = "admin" \/ tasks[i].user_id = actor}

\* The tasks of the scope that are overdue: a deadline before the clock, and
\* not completed
OverdueInScope(actor, clock) ==
    {i \in Scope(actor) :
        /\ ~tasks[i].completed
        /\ ~IsNone(tasks[i].deadline_at)
        /\ Val(tasks[i].deadline_at) < clock}

\* C11: a completed task is never overdue: the is_overdue flag of the admin
\* listing is false for it, and the overdue count of GET /stats/ and the one of
\* GET /stats/summary are each the number of tasks in scope whose deadline is
\* before the clock and that are not completed.
C11_CompletedNeverOverdue ==
    /\ (resp.op = "get_user_tasks" /\ resp.status = 200) =>
          \A k \in 1..Len(resp.body) :
              resp.body[k].completed => ~resp.body[k].is_overdue
    /\ resp.op = "get_tasks_stats" =>
          /\ resp.status = 200
          /\ resp.body[1].deadlines.overdue =
                Cardinality(OverdueInScope(resp.actor, now))
    /\ resp.op = "get_stats_summary" =>
          /\ resp.status = 200
          /\ resp.body[1].summary.overdue =
                Cardinality(OverdueInScope(resp.actor, now))

\* The requests C12 is about: authorized, well formed, and on existing data
AuthorizedOnExisting(r) ==
    CASE r.op = "get_all_tasks" -> TRUE
      [] r.op = "get_task_by_id" ->
            /\ r.task_id \in DOMAIN tasks
            /\ (role(r.actor) = "admin" \/ tasks[r.task_id].user_id = r.actor)
      [] r.op = "create_task" -> Len(r.param.title) \in 1..256
      [] r.op \in {"update_task", "complete_task"} -> r.committed
      [] OTHER -> FALSE

\* C12: list all, fetch by id, create, update and complete, when authorized
\* and on existing data, succeed and return each task with is_urgent =
\* urgency(deadline_at, now) and days_until_deadline = days_remaining(
\* deadline_at, now), both of the clock of the response.
C12_LiveFieldsReturned ==
    AuthorizedOnExisting(resp) =>
        /\ Kind(resp.status) = "OK"
        /\ \A k \in 1..Len(resp.body) :
              /\ resp.body[k].is_urgent = SpecUrgency(resp.body[k].deadline_at, now)
              /\ IsFloorDays(resp.body[k].days_until_deadline,
                             resp.body[k].deadline_at, now)

\* C13: no step reopens a completed task: a task that is completed and still
\* exists after the step is still completed.
C13_NeverReopened ==
    [][\A i \in TaskIds :
          (i \in DOMAIN tasks /\ i \in DOMAIN tasks' /\ tasks[i].completed) =>
              tasks'[i].completed]_vars

\* C14: completed_at is set once, when completed goes from false to true: a
\* step gives completed_at a value only at that transition, and a completed_at
\* that has a value keeps it, a repeated complete included.
C14_CompletedAtSetOnce ==
    [][\A i \in TaskIds :
          (i \in DOMAIN tasks /\ i \in DOMAIN tasks') =>
              /\ ~IsNone(tasks[i].completed_at) =>
                    tasks'[i].completed_at = tasks[i].completed_at
              /\ (IsNone(tasks[i].completed_at) /\ ~IsNone(tasks'[i].completed_at)) =>
                    (~tasks[i].completed /\ tasks'[i].completed)]_vars


\* C15: create either fails validation (title empty or longer than 256
\* characters) and adds no task, or adds exactly one task, under an id no
\* existing task has, not completed, without completed_at, owned by the
\* caller, with the title, description, is_important and deadline_at of the
\* request and the quadrant of is_important and deadline_at at the clock of
\* the creation; the tasks that existed are unchanged.
C15_CreateAddsOneTask ==
    [][(Idle /\ resp'.op = "create_task") =>
          LET request == resp'.param
          IN  IF Len(request.title) = 0 \/ Len(request.title) > 256
              THEN /\ Kind(resp'.status) = "ValidationError"
                   /\ tasks' = tasks
              ELSE /\ Kind(resp'.status) = "OK"
                   /\ \E i \in DOMAIN tasks' \ DOMAIN tasks :
                         /\ DOMAIN tasks' = DOMAIN tasks \cup {i}
                         /\ tasks'[i].id = i
                         /\ tasks'[i].completed = FALSE
                         /\ IsNone(tasks'[i].completed_at)
                         /\ tasks'[i].user_id = resp'.actor
                         /\ tasks'[i].title = request.title
                         /\ tasks'[i].description = request.description
                         /\ tasks'[i].is_important = request.is_important
                         /\ tasks'[i].deadline_at = request.deadline_at
                         /\ tasks'[i].quadrant =
                               SpecQuadrant(request.is_important, request.deadline_at, now)
                   /\ \A j \in DOMAIN tasks : tasks'[j] = tasks[j]]_vars

\* C15 happens: a user created a second task, with a description and a
\* deadline, next to the task of another user
C15_Witness ==
    /\ resp.op = "create_task"
    /\ resp.status = 201
    /\ resp.actor = 3
    /\ DOMAIN tasks = {1, 2}
    /\ tasks[1].user_id = 2
    /\ tasks[2].user_id = 3
    /\ tasks[2].description = Some(TextX)
    /\ tasks[2].deadline_at = Some(DeadlineDay4)

\* C16: as long as a task exists, its id, its owner and created_at are the
\* ones of its creation: no step, of an administrator included, changes them.
C16_IdentityImmutable ==
    [][\A i \in TaskIds :
          /\ CreateCommitted(i) =>
                /\ tasks'[i].id = i
                /\ tasks'[i].user_id = resp'.actor
                /\ tasks'[i].created_at = now
          /\ (i \in DOMAIN tasks /\ i \in DOMAIN tasks') =>
                /\ tasks'[i].id = tasks[i].id
                /\ tasks'[i].user_id = tasks[i].user_id
                /\ tasks'[i].created_at = tasks[i].created_at]_vars

\* C16 happens: the administrator completed, a day after its creation, the
\* task of a user, which still is that user's
C16_Witness ==
    /\ resp.op = "complete_task"
    /\ resp.committed
    /\ resp.actor = 1
    /\ resp.task_id \in DOMAIN tasks
    /\ tasks[resp.task_id].user_id = 2
    /\ tasks[resp.task_id].created_at = 0
    /\ now = SecondsPerDay

\* The ids of the tasks that were deleted
Deleted == {i \in TaskIds : i < next_id /\ i \notin DOMAIN tasks}

\* C17: a delete that succeeds was asked by the owner or an administrator,
\* removes the task of the path and no other, leaves the other tasks
\* unchanged and answers with the id and the title of the task; the id of a
\* deleted task is never in the table again, and every fetch, update, complete
\* or delete of it answers NotFound.
C17_DeleteRemovesOne ==
    [][/\ (Idle /\ resp'.op = "delete_task" /\ Kind(resp'.status) = "OK") =>
            LET i == resp'.task_id
            IN  /\ i \in DOMAIN tasks
                /\ (role(resp'.actor) = "admin" \/ tasks[i].user_id = resp'.actor)
                /\ DOMAIN tasks' = DOMAIN tasks \ {i}
                /\ \A j \in DOMAIN tasks' : tasks'[j] = tasks[j]
                /\ resp'.body = <<[id |-> i, title |-> tasks[i].title]>>
       /\ (Idle /\ resp'.op = "delete_task" /\ resp'.task_id \in DOMAIN tasks
             /\ (role(resp'.actor) = "admin"
                    \/ tasks[resp'.task_id].user_id = resp'.actor)) =>
            Kind(resp'.status) = "OK"
       /\ \A i \in Deleted :
            /\ i \notin DOMAIN tasks'
            /\ (Idle /\ resp'.op \in ItemOps /\ resp'.task_id = i) =>
                  Kind(resp'.status) = "NotFound"]_vars

\* C17 happens: the task 1 was deleted, the task 2 is still there, and the
\* administrator's complete of task 1 was answered NotFound
C17_Witness ==
    /\ resp.op = "complete_task"
    /\ resp.task_id = 1
    /\ resp.actor = 1
    /\ Kind(resp.status) = "NotFound"
    /\ DOMAIN tasks = {2}
    /\ next_id = 3


\* C18: GET /stats/urgent answers with exactly the tasks in scope that are not
\* completed and urgent at the clock of the request, each once, with its days
\* until the deadline, in an order where days_until_deadline never decreases
\* and a null comes after every number.
C18_UrgentListSorted ==
    resp.op = "get_urgent_tasks" =>
        /\ resp.status = 200
        /\ BodyIds(resp) =
              {i \in Scope(resp.actor) :
                  ~tasks[i].completed /\ SpecUrgency(tasks[i].deadline_at, now)}
        /\ Len(resp.body) = Cardinality(BodyIds(resp))
        /\ \A k \in 1..Len(resp.body) :
              IsFloorDays(resp.body[k].days_until_deadline,
                          tasks[resp.body[k].id].deadline_at, now)
        /\ \A j, k \in 1..Len(resp.body) :
              j < k =>
                  LET dj == resp.body[j].days_until_deadline
                      dk == resp.body[k].days_until_deadline
                  IN  /\ IsNone(dj) => IsNone(dk)
                      /\ (~IsNone(dj) /\ ~IsNone(dk)) => Val(dj) <= Val(dk)

\* C18 happens: the administrator's urgent list has two tasks, the younger one
\* first because its deadline is nearer
C18_Witness ==
    /\ resp.op = "get_urgent_tasks"
    /\ resp.actor = 1
    /\ Len(resp.body) = 2
    /\ resp.body[1].id = 2
    /\ resp.body[2].id = 1
    /\ Val(resp.body[1].days_until_deadline) < Val(resp.body[2].days_until_deadline)

\* The three situations of a search: the query is missing, shorter than two
\* characters, or well formed and without match among the tasks in scope
NoMatch(actor, q) ==
    \A i \in Scope(actor) :
        /\ ~Contains(tasks[i].title, q)
        /\ IsNone(tasks[i].description) \/ ~Contains(Val(tasks[i].description), q)

Situation(actor, q) ==
    IF IsNone(q) THEN "missing"
    ELSE IF Len(Val(q)) < 2 THEN "short"
    ELSE IF NoMatch(actor, Val(q)) THEN "no match"
    ELSE "match"

CompletedSince(actor, clock, n) ==
    {i \in Scope(actor) :
        /\ tasks[i].completed
        /\ ~IsNone(tasks[i].completed_at)
        /\ Val(tasks[i].completed_at) >= clock - n * SecondsPerDay}

\* The sum of tasks_completed over the first k days of a day-by-day list
RECURSIVE SumCompleted(_, _)
SumCompleted(daily, k) ==
    IF k = 0 THEN 0 ELSE SumCompleted(daily, k - 1) + daily[k].tasks_completed

\* What C20 has in common in both statements: total_completed is the number
\* of tasks in scope completed within the window, each counted once, under
\* the day of its completion; for n <= 0 the average is 0
ProductivityCounts(r) ==
    LET n == Val(r.param)
        b == r.body[1]
    IN  /\ r.status = 200
        /\ b.total_completed = Cardinality(CompletedSince(r.actor, now, n))
        /\ b.total_completed = SumCompleted(b.daily_completions, Len(b.daily_completions))
        /\ \A k \in 1..Len(b.daily_completions) :
              b.daily_completions[k].tasks_completed =
                  Cardinality({i \in CompletedSince(r.actor, now, n) :
                      /\ b.daily_completions[k].date * SecondsPerDay
                            <= Val(tasks[i].completed_at)
                      /\ Val(tasks[i].completed_at)
                            < (b.daily_completions[k].date + 1) * SecondsPerDay})
        /\ n <= 0 => b.average_daily = 0

\* C20 as stated: the counts, and for n > 0 average_daily = total_completed / n
\* (average_daily is held in hundredths).
C20_ProductivityExact ==
    resp.op = "get_productivity_stats" =>
        /\ ProductivityCounts(resp)
        /\ Val(resp.param) > 0 =>
              resp.body[1].average_daily * Val(resp.param) =
                  resp.body[1].total_completed * 100

\* C20 amended: the counts, and for n > 0 average_daily is total_completed / n
\* rounded to two decimals: a multiple of 0.01 at most 0.005 away from it.
C20_ProductivityRounded ==
    resp.op = "get_productivity_stats" =>
        /\ ProductivityCounts(resp)
        /\ Val(resp.param) > 0 =>
              LET n == Val(resp.param)
                  diff == resp.body[1].average_daily * n
                              - resp.body[1].total_completed * 100
              IN  /\ 2 * diff <= n
                  /\ -2 * diff <= n

\* C20 happens: one completion in a window of 7 days, average 0.14
C20_Witness ==
    /\ resp.op = "get_productivity_stats"
    /\ Val(resp.param) = 7
    /\ resp.body[1].total_completed = 1
    /\ resp.body[1].average_daily = 14


\* C22: when update or complete reports a failure to the caller (NotFound,
\* Forbidden, or a failure while the response is built), the table is as it
\* was before the call.
C22_FailureLeavesTable ==
    [][(Idle /\ resp'.op \in {"update_task", "complete_task"}
             /\ Kind(resp'.status) # "OK") => tasks' = tasks]_vars

\* The live urgency of a stored task
LiveUrgent(task, clock) == SpecUrgency(task.deadline_at, clock)

\* The stored quadrant of a task does not report an urgency the task does not
\* have at the clock: Q1 or Q3 only with a deadline and live urgency, so that
\* a disagreement is Q2 or Q4 with live urgency
NotOverReported(task, clock) ==
    /\ task.quadrant \in {"Q1", "Q3"} =>
          (~IsNone(task.deadline_at) /\ LiveUrgent(task, clock))
    /\ (task.quadrant \in {"Q1", "Q3"}) # LiveUrgent(task, clock) =>
          (task.quadrant \in {"Q2", "Q4"} /\ LiveUrgent(task, clock))

\* C24: the clock never goes back, and the stored quadrant never reports an
\* urgency the task does not have: after every step that changes the table or
\* the clock (the table is empty at the start), a task stored in Q1 or Q3 has
\* a deadline and is urgent at the clock, and where the stored quadrant and
\* the live urgency disagree the quadrant is Q2 or Q4 and the task is urgent;
\* a task that is urgent stays urgent as long as its deadline_at is not
\* changed.
C24_QuadrantNeverOverReports ==
    [][(tasks' # tasks \/ now' # now) =>
          /\ now' >= now
          /\ \A i \in DOMAIN tasks' : NotOverReported(tasks'[i], now')
          /\ \A i \in DOMAIN tasks \cap DOMAIN tasks' :
                (LiveUrgent(tasks[i], now)
                    /\ tasks'[i].deadline_at = tasks[i].deadline_at) =>
                    LiveUrgent(tasks'[i], now')]_vars

\* C24 happens: a day after its creation a task is still stored in Q2 or Q4,
\* and its deadline, then four days ahead, is now three days ahead: urgent
C24_Witness ==
    \E i \in DOMAIN tasks :
        /\ tasks[i].created_at = 0
        /\ now = SecondsPerDay
        /\ tasks[i].deadline_at = Some(DeadlineDay4)
        /\ tasks[i].quadrant \in {"Q2", "Q4"}
        /\ LiveUrgent(tasks[i], now)
        /\ ~LiveUrgent(tasks[i], tasks[i].created_at)


\* An update applied alone to a row at a clock: the supplied fields, and the
\* quadrant of the resulting fields when is_important or deadline_at is
\* supplied
UpdateAlone(row, p, clock) ==
    LET set == SetSupplied(row, p)
    IN  IF DOMAIN p \cap RecomputeFields # {}
        THEN [set EXCEPT !.quadrant =
                  SpecQuadrant(set.is_important, set.deadline_at, clock)]
        ELSE set

\* The rows two updates give when they run one after the other, in either
\* order, each at one of the two clocks
SerialRows(row, p1, p2, clocks) ==
    {UpdateAlone(UpdateAlone(row, p1, t1), p2, t2) : t1 \in clocks, t2 \in clocks}
        \cup {UpdateAlone(UpdateAlone(row, p2, t1), p1, t2) : t1 \in clocks, t2 \in clocks}

\* The request r commits its update while the request q, which loaded the same
\* row of the same task, has committed its own
SecondCommit(r, q) ==
    /\ r # q
    /\ sessions[r].op = "update_task" /\ sessions[r].pc = "loaded"
    /\ sessions'[r].pc = "done" /\ sessions'[r].committed
    /\ sessions[q].op = "update_task" /\ sessions[q].pc = "done"
    /\ sessions[q].committed
    /\ sessions[q].task_id = sessions[r].task_id
    /\ sessions[q].loaded = sessions[r].loaded
    /\ sessions[r].task_id \in DOMAIN tasks'

\* C21: when two authorized updates of a task interleave, each reading the
\* row before the other commits, the row stored after both commits has the
\* quadrant of its stored is_important and deadline_at at a write time, and is
\* a row that the two updates give when run one after the other in some order.
C21_InterleavedUpdatesSerial ==
    [][\A r, q \in Requests :
          SecondCommit(r, q) =>
              LET row == tasks'[sessions[r].task_id]
                  clocks == {sessions[q].clock, now}
                  p1 == sessions[q].p
                  p2 == sessions[r].p
              IN  /\ (DOMAIN p1 \cup DOMAIN p2) \cap RecomputeFields # {} =>
                         \E t \in clocks :
                             row.quadrant =
                                 SpecQuadrant(row.is_important, row.deadline_at, t)
                  /\ row \in SerialRows(Val(sessions[r].loaded), p1, p2, clocks)]_vars

\* C23: the buckets of every answer of GET /stats/ add up: total_tasks = Q1 +
\* Q2 + Q3 + Q4 = completed + pending = with_deadline + without_deadline, and
\* overdue <= urgent <= with_deadline, also when another request created or
\* deleted a task between the count query and the task query.
C23_StatsBucketsAddUp ==
    \A r \in Requests :
        (sessions[r].op = "get_tasks_stats" /\ sessions[r].pc = "done") =>
            LET b == sessions[r].body[1]
            IN  /\ b.total_tasks = b.by_quadrant["Q1"] + b.by_quadrant["Q2"]
                                       + b.by_quadrant["Q3"] + b.by_quadrant["Q4"]
                /\ b.total_tasks = b.by_status.completed + b.by_status.pending
                /\ b.total_tasks = b.deadlines.with_deadline
                                       + b.deadlines.without_deadline
                /\ b.deadlines.overdue <= b.deadlines.urgent
                /\ b.deadlines.urgent <= b.deadlines.with_deadline

=============================================================================
